---- MODULE Spec2Model ----
(***************************************************************************)
(* GameVault desktop client: the Electron main process (window lifecycle,  *)
(* persistent store, IPC handlers), the preload bridge that invokes them,  *)
(* the renderer's auth store and the ApiClient, together with the server   *)
(* manifest the client is documented to synchronise against.               *)
(***************************************************************************)
EXTENDS Integers, FiniteSets, Sequences, TLC

\* ------------------------------------------------------------------ bounds
MaxWindows == 2      \* BrowserWindows created in one run of the app
MaxRuns == 2         \* download-game calls counted per unchanged remote manifest

\* ------------------------------------------------------------ value spaces
Null == "null"                     \* JavaScript null
Undefined == "undefined"           \* JavaScript undefined (store.get of a missing key)

Games == {1}                       \* gameId: number
Hashes == {"hashX", "hashY"}       \* manifestHash values the server can publish
Keys == {"k1", "k2"}               \* electron-store keys
Values == Hashes                   \* values the renderer stores (any JSON value)
Tokens == {"jwt1"}                 \* JWT strings
Users == {"alice"}                 \* user objects
GamePaths == {"C:/games/g.exe"}    \* launch-game argument
SavePaths == {"C:/saves/g"}        \* upload-save argument
SaveIds == {1, 2}                  \* download-save argument
Platforms == {"darwin", "win32"}   \* process.platform
AppVersion == "1.0.0"              \* app.getVersion()

Endpoints == {"/api/auth/token", "/api/games/manifest-hash", "/api/games/manifest"}

\* The value every unimplemented handler resolves with.
NotImplemented == [success |-> FALSE, message |-> "Not implemented"]

NoCall == [phase |-> "idle"]
NoRequest == [sent |-> FALSE]
NoValue == "none"                  \* no store.set on the key has resolved yet

VARIABLES
    platform,      \* process.platform, fixed for a run
    appState,      \* "starting" | "ready" | "quit"
    mainWindow,    \* let mainWindow: BrowserWindow | null
    windows,       \* BrowserWindow.getAllWindows()
    created,       \* number of BrowserWindows constructed so far
    store,         \* const store = new Store(): key -> value, as persisted on disk
    ipc,           \* the renderer's outstanding ipcRenderer.invoke, or its reply
    token,         \* useAuthStore.token
    user,          \* useAuthStore.user
    lastRequest,   \* last request that left ApiClient, with its headers
    manifestHash,  \* the server's manifest hash per game
    runs,          \* resolved download-game calls per game since the manifest last changed
    lastSet,       \* per key, the value of the last store.set that resolved in this run
    authOp         \* the last useAuthStore function called in the open renderer

vars == <<platform, appState, mainWindow, windows, created, store, ipc,
          token, user, lastRequest, manifestHash, runs, lastSet, authOp>>

windowVars == <<platform, appState, mainWindow, windows, created>>
authVars == <<token, user, authOp>>
serverVars == <<manifestHash, runs>>

\* ------------------------------------------------------------------- Init
Init ==
    /\ platform \in Platforms
    /\ appState = "starting"
    /\ mainWindow = Null
    /\ windows = {}
    /\ created = 0
    /\ store \in [Keys -> Values \cup {Undefined}]
    /\ ipc = NoCall
    /\ token = Null
    /\ user = Null
    /\ lastRequest = NoRequest
    /\ manifestHash \in [Games -> Hashes]
    /\ runs = [g \in Games |-> 0]
    /\ lastSet = [k \in Keys |-> NoValue]
    /\ authOp = "none"

\* ------------------------------------------------------- window lifecycle
\* function createWindow(): a new BrowserWindow whose renderer starts with a
\* freshly constructed auth store.
createWindow ==
    /\ created < MaxWindows
    /\ created' = created + 1
    /\ mainWindow' = created + 1
    /\ windows' = windows \cup {created + 1}
    /\ token' = Null
    /\ user' = Null
    /\ authOp' = "none"

\* app.whenReady().then(...)
WhenReady ==
    /\ appState = "starting"
    /\ appState' = "ready"
    /\ createWindow
    /\ UNCHANGED <<platform, store, ipc, lastRequest, serverVars, lastSet>>

\* Activate without the getAllWindows().length === 0 test.
ActivateAlways ==
    /\ appState = "ready"
    /\ createWindow
    /\ UNCHANGED <<platform, appState, store, ipc, lastRequest, serverVars, lastSet>>

\* app.on('activate', ...)
Activate ==
    /\ appState = "ready"
    /\ IF Cardinality(windows) = 0
          THEN createWindow
          ELSE UNCHANGED <<created, mainWindow, windows, token, user, authOp>>
    /\ UNCHANGED <<platform, appState, store, ipc, lastRequest, serverVars, lastSet>>

\* mainWindow.on('closed', () => { mainWindow = null; })
closed == mainWindow' = Null

\* app.on('window-all-closed', ...)
windowAllClosed ==
    appState' = IF platform # "darwin" THEN "quit" ELSE appState

\* A BrowserWindow is closed: Electron emits 'closed' on it, drops it from the
\* window list and, when that list is now empty, emits 'window-all-closed'.
CloseWindow(w) ==
    /\ appState = "ready"
    /\ w \in windows
    /\ windows' = windows \ {w}
    /\ closed
    /\ IF windows' = {} THEN windowAllClosed ELSE UNCHANGED appState
    /\ UNCHANGED <<platform, created, store, ipc, authVars, lastRequest, serverVars, lastSet>>

\* ------------------------------------------------------------ IPC bridge
\* preload.ts: every exposed method is ipcRenderer.invoke(channel, ...args).
Invoke(channel, args) ==
    /\ appState = "ready"
    /\ windows # {}
    /\ ipc.phase # "pending"
    /\ ipc' = [phase |-> "pending", channel |-> channel, args |-> args]
    /\ UNCHANGED <<windowVars, store, authVars, lastRequest, serverVars, lastSet>>

getAppVersion == Invoke("get-app-version", <<>>)
storeGet(key) == Invoke("store-get", <<key>>)
storeSet(key, value) == Invoke("store-set", <<key, value>>)
downloadGame(gameId) == Invoke("download-game", <<gameId>>)
launchGame(gamePath) == Invoke("launch-game", <<gamePath>>)
uploadSave(gameId, savePath) == Invoke("upload-save", <<gameId, savePath>>)
downloadSave(gameId, saveId) == Invoke("download-save", <<gameId, saveId>>)

Pending(channel) ==
    /\ appState = "ready"
    /\ ipc.phase = "pending"
    /\ ipc.channel = channel

Resolve(value) ==
    ipc' = [phase |-> "resolved", channel |-> ipc.channel, args |-> ipc.args,
            value |-> value]

\* ipcMain.handle('get-app-version', ...)
HandleGetAppVersion ==
    /\ Pending("get-app-version")
    /\ Resolve(AppVersion)
    /\ UNCHANGED <<windowVars, store, authVars, lastRequest, serverVars, lastSet>>

\* store.get(key)
StoreRead(key) == store[key]

\* ipcMain.handle('store-get', ...)
HandleStoreGet ==
    /\ Pending("store-get")
    /\ Resolve(StoreRead(ipc.args[1]))
    /\ UNCHANGED <<windowVars, store, authVars, lastRequest, serverVars, lastSet>>

\* store.set that does not persist the value.
StoreWriteDropped(key, value) == store

\* store.set(key, value)
StoreWrite(key, value) == [store EXCEPT ![key] = value]

\* ipcMain.handle('store-set', ...)
HandleStoreSet ==
    /\ Pending("store-set")
    /\ store' = StoreWrite(ipc.args[1], ipc.args[2])
    /\ Resolve(TRUE)
    /\ lastSet' = [lastSet EXCEPT ![ipc.args[1]] = ipc.args[2]]
    /\ UNCHANGED <<windowVars, authVars, lastRequest, serverVars>>

\* A download-game body that reports a finished download.
DownloadGameResultDone(gameId) == [success |-> TRUE, message |-> "Downloaded"]

\* The body of ipcMain.handle('download-game', ...): what the call resolves with.
DownloadGameResult(gameId) == NotImplemented

\* ipcMain.handle('download-game', ...)
HandleDownloadGame ==
    /\ Pending("download-game")
    /\ Resolve(DownloadGameResult(ipc.args[1]))
    /\ runs' = [runs EXCEPT ![ipc.args[1]] = IF @ < MaxRuns THEN @ + 1 ELSE @]
    /\ UNCHANGED <<windowVars, store, authVars, lastRequest, manifestHash, lastSet>>

\* ipcMain.handle('launch-game', ...)
HandleLaunchGame ==
    /\ Pending("launch-game")
    /\ Resolve(NotImplemented)
    /\ UNCHANGED <<windowVars, store, authVars, lastRequest, serverVars, lastSet>>

\* ipcMain.handle('upload-save', ...)
HandleUploadSave ==
    /\ Pending("upload-save")
    /\ Resolve(NotImplemented)
    /\ UNCHANGED <<windowVars, store, authVars, lastRequest, serverVars, lastSet>>

\* ipcMain.handle('download-save', ...)
HandleDownloadSave ==
    /\ Pending("download-save")
    /\ Resolve(NotImplemented)
    /\ UNCHANGED <<windowVars, store, authVars, lastRequest, serverVars, lastSet>>

\* ------------------------------------------------------------- auth store
Renderer == appState = "ready" /\ windows # {}

setToken(newToken) ==
    /\ Renderer
    /\ token' = newToken
    /\ authOp' = "setToken"
    /\ UNCHANGED <<windowVars, store, ipc, user, lastRequest, serverVars, lastSet>>

setUser(newUser) ==
    /\ Renderer
    /\ user' = newUser
    /\ authOp' = "setUser"
    /\ UNCHANGED <<windowVars, store, ipc, token, lastRequest, serverVars, lastSet>>

\* logout that forgets to clear the user.
logoutKeepsUser ==
    /\ appState = "ready" /\ windows # {}
    /\ token' = Null
    /\ authOp' = "logout"
    /\ UNCHANGED <<windowVars, store, ipc, user, lastRequest, serverVars, lastSet>>

logout ==
    /\ Renderer
    /\ token' = Null
    /\ user' = Null
    /\ authOp' = "logout"
    /\ UNCHANGED <<windowVars, store, ipc, lastRequest, serverVars, lastSet>>

\* -------------------------------------------------------------- ApiClient
\* The request interceptor: `const token = null; if (token) { ...Authorization... }`.
InterceptorToken == Null

RequestHeaders ==
    IF InterceptorToken # Null
       THEN {<<"Authorization", <<"Bearer", InterceptorToken>>>>}
       ELSE {}

\* this.client.get / this.client.post through the interceptor
Request(endpoint) ==
    /\ Renderer
    /\ lastRequest' = [sent |-> TRUE, url |-> endpoint, headers |-> RequestHeaders]
    /\ UNCHANGED <<windowVars, store, ipc, authVars, serverVars, lastSet>>

\* ----------------------------------------------------------------- server
\* The server rescans a game directory and publishes a new manifest.json.
ServerRescan(gameId, hash) ==
    /\ hash # manifestHash[gameId]
    /\ manifestHash' = [manifestHash EXCEPT ![gameId] = hash]
    /\ runs' = [runs EXCEPT ![gameId] = 0]
    /\ UNCHANGED <<windowVars, store, ipc, authVars, lastRequest, lastSet>>

\* ------------------------------------------------------------------- Next
Next ==
    \/ WhenReady
    \/ Activate
    \/ \E w \in windows : CloseWindow(w)
    \/ getAppVersion
    \/ \E k \in Keys : storeGet(k)
    \/ \E k \in Keys, v \in Values : storeSet(k, v)
    \/ \E g \in Games : downloadGame(g)
    \/ \E p \in GamePaths : launchGame(p)
    \/ \E g \in Games, p \in SavePaths : uploadSave(g, p)
    \/ \E g \in Games, s \in SaveIds : downloadSave(g, s)
    \/ HandleGetAppVersion
    \/ HandleStoreGet
    \/ HandleStoreSet
    \/ HandleDownloadGame
    \/ HandleLaunchGame
    \/ HandleUploadSave
    \/ HandleDownloadSave
    \/ \E t \in Tokens : setToken(t)
    \/ \E u \in Users : setUser(u)
    \/ logout
    \/ \E e \in Endpoints : Request(e)
    \/ \E g \in Games, h \in Hashes : ServerRescan(g, h)

Spec == Init /\ [][Next]_vars

\* ---------------------------------------------------------------- claims
\* The reply the renderer holds is the reply to downloadGame(gameId).
DownloadResolved(gameId) ==
    /\ ipc.phase = "resolved"
    /\ ipc.channel = "download-game"
    /\ ipc.args = <<gameId>>

C6_CycleEndsWithSuccess ==
    \A g \in Games : DownloadResolved(g) => ipc.value.success = TRUE

\* C15 (token in request headers): every request that leaves ApiClient while
\* the auth store holds a token (after setToken, before logout) carries the
\* header Authorization: Bearer <token>.
C15_RequestsCarryBearerToken ==
    [][\A e \in Endpoints :
          (Request(e) /\ token # Null)
              => <<"Authorization", <<"Bearer", token>>>> \in lastRequest'.headers]_vars

\* C16 (store round-trip over IPC): store.set resolves with true, and once a
\* store.set(k, v) has resolved every store.get(k) resolves with the value of
\* the latest such set, whatever calls on other keys and channels came between.
C16_StoreGetReturnsLastSet ==
    [][/\ HandleStoreSet => ipc'.value = TRUE
       /\ (HandleStoreGet /\ lastSet[ipc.args[1]] # NoValue)
              => ipc'.value = lastSet[ipc.args[1]]]_vars

\* C16 witness: a store.get("k1") has resolved with the value set earlier, after
\* a set on the other key and a downloadGame call.
C16_Witness ==
    /\ ipc.phase = "resolved"
    /\ ipc.channel = "store-get"
    /\ ipc.args = <<"k1">>
    /\ lastSet["k1"] = "hashX"
    /\ ipc.value = "hashX"
    /\ lastSet["k2"] = "hashY"
    /\ runs[1] >= 1

FourStubs ==
    HandleDownloadGame \/ HandleLaunchGame \/ HandleUploadSave \/ HandleDownloadSave

C19_AuthStore ==
    [][/\ authOp' = "logout" => (token' = Null /\ user' = Null)
       /\ ((token' = Null) # (user' = Null)) => authOp' \in {"setToken", "setUser"}
       /\ (authOp' = "setToken" /\ authVars' # authVars) => user' = user
       /\ (authOp' = "setUser" /\ authVars' # authVars) => token' = token]_vars

\* C19 witness: logout has just run in a renderer and both fields are null.
C19_Witness ==
    /\ authOp = "logout"
    /\ token = Null
    /\ user = Null
    /\ windows # {}

\* C20 (main-window lifecycle): at most one window is open; mainWindow is null
\* whenever the window created last is closed; with no window left the app has
\* quit unless the platform is darwin, where it keeps running.
C20_MainWindowLifecycle ==
    /\ Cardinality(windows) <= 1
    /\ (created > 0 /\ created \notin windows) => mainWindow = Null
    /\ (appState = "ready" /\ windows = {}) => platform = "darwin"
    /\ appState = "quit" => (platform # "darwin" /\ windows = {})
    /\ (platform # "darwin" /\ created > 0 /\ windows = {}) => appState = "quit"

\* C20 witness: on darwin the first window was closed, the app kept running,
\* and an activate event created the second window.
C20_Witness ==
    /\ platform = "darwin"
    /\ appState = "ready"
    /\ created = 2
    /\ windows = {2}
    /\ mainWindow = 2

====
